---- MODULE Spec2Model ----
(***************************************************************************)
(* Shannon-Fano codec of massung/go-shannon (shannon.go): BuildTable and   *)
(* its two convenience constructors, Table.Encode and Table.Decode.        *)
(*                                                                         *)
(* Representation choices:                                                 *)
(*  - a uint32 is the set of its set bit positions (0 = least significant, *)
(*    31 = most significant); shifts drop the bits that leave the word;    *)
(*  - a float64 weight is an exact rational: an integer numerator over the *)
(*    denominator `den` carried with the weight map, so 1.0 is `den`;      *)
(*    rounding of float64 arithmetic is not modelled;                      *)
(*  - a rune is a small integer; a string is a sequence of runes, each     *)
(*    one byte long, so len(s) is the number of runes.                     *)
(***************************************************************************)
EXTENDS Integers, Sequences, FiniteSets, TLC

\* ---------------------------------------------------------------- bounds
NumSyms == 3
MaxW == 2
MaxStr == 3
MaxTail == 2
MaxVec == 2
Unit == 4
PadLen == 31
WideN == 34

\* ------------------------------------------------------- program constants
WordBits == 32

Syms == 1..NumSyms

\* ------------------------------------------------------------ uint32 words
Zero == {}

Ones == 0..(WordBits - 1)

\* x << k on a uint32; a count of 32 or more (a negative int converted to
\* uint is such a count) leaves no bit
Shl(x, k) ==
  IF k < 0 \/ k >= WordBits THEN {}
  ELSE {b + k : b \in {c \in x : c + k < WordBits}}

\* x >> k on a uint32
Shr(x, k) ==
  IF k < 0 \/ k >= WordBits THEN {}
  ELSE {b - k : b \in {c \in x : c >= k}}

Or(x, y) == x \cup y

\* Go's integer division truncates toward zero
GoDiv(a, b) == IF a >= 0 THEN a \div b ELSE -((-a) \div b)

Abs(x) == IF x < 0 THEN -x ELSE x

\* ------------------------------------------------------------- BuildTable
NoFreq == [w |-> <<>>, den |-> 0]

\* the codes list as BuildTable's sort may leave it: every order of the
\* map's runes that is descending in weight (the map is iterated in any
\* order and sort.Slice is not stable, so ties end in any order)
RECURSIVE SortedOrders(_, _)
SortedOrders(w, S) ==
  IF S = {} THEN {<<>>}
  ELSE LET top == {x \in S : \A y \in S : w[x] >= w[y]}
       IN UNION {{<<x>> \o t : t \in SortedOrders(w, S \ {x})} : x \in top}

InitCodes(w, order) ==
  [i \in 1..Len(order) |->
     [Char |-> order[i], Prob |-> w[order[i]], Bits |-> Zero, Size |-> 0]]

RECURSIVE SumProb(_)
SumProb(codes) ==
  IF Len(codes) = 0 THEN 0 ELSE Head(codes).Prob + SumProb(Tail(codes))

\* the pivot scan; p is Go's 0-based index, codes[p + 1] is Go's codes[p]
RECURSIVE Scan(_, _, _, _, _)
Scan(codes, prob, left, best, p) ==
  IF p < Len(codes) - 1
  THEN LET diff == Abs((prob - left) - left)
       IN IF diff < best
          THEN Scan(codes, prob, left + codes[p + 1].Prob, diff, p + 1)
          ELSE p
  ELSE p

\* best starts at 1.0, which is `one` in units of 1/den
Pivot(codes, one) == Scan(codes, SumProb(codes), codes[1].Prob, one, 1)

AppendBit(codes, p) ==
  [i \in 1..Len(codes) |->
     [codes[i] EXCEPT !.Bits = Or(Shl(@, 1), IF i - 1 >= p THEN {0} ELSE {}),
                      !.Size = @ + 1]]

RECURSIVE divide(_, _)
divide(codes, one) ==
  IF Len(codes) < 2 THEN codes
  ELSE LET p == Pivot(codes, one)
           marked == AppendBit(codes, p)
       IN divide(SubSeq(marked, 1, p), one)
            \o divide(SubSeq(marked, p + 1, Len(marked)), one)

\* the sub-lists divide splits, each with the pivot it used
RECURSIVE Splits(_, _)
Splits(codes, one) ==
  IF Len(codes) < 2 THEN {}
  ELSE LET p == Pivot(codes, one)
       IN {[w |-> [i \in 1..Len(codes) |-> codes[i].Prob], p |-> p]}
            \cup Splits(SubSeq(codes, 1, p), one)
            \cup Splits(SubSeq(codes, p + 1, Len(codes)), one)

TableOf(codes) ==
  [c \in {codes[i].Char : i \in 1..Len(codes)} |->
     LET i == CHOOSE j \in 1..Len(codes) : codes[j].Char = c IN codes[i]]


\* BuildTable on one iteration/sort order of the weight map
BuildTableOp(f, order) == TableOf(divide(InitCodes(f.w, order), f.den))

\* BuildTableFromString: freq[r] counts r, prob[r] = freq[r] / len(s)
FreqOfString(str) ==
  [w |-> [r \in {str[i] : i \in 1..Len(str)} |->
            Cardinality({i \in 1..Len(str) : str[i] = r})],
   den |-> Len(str)]

RECURSIVE SumSet(_)
SumSet(S) == IF S = {} THEN 0 ELSE LET x == CHOOSE y \in S : TRUE
                                   IN x + SumSet(S \ {x})

\* BuildTableFromOrderedRunes: prob[r] += (n - i) / m, i Go's 0-based index
FreqOfOrderedRunes(runes) ==
  LET n == Len(runes)
      m == (n * (n - 1)) \div 2 + n
  IN [w |-> [r \in {runes[i] : i \in 1..n} |->
               SumSet({n - (i - 1) : i \in {j \in 1..n : runes[j] = r}})],
      den |-> m]

\* ----------------------------------------------------------------- Encode
NilVec == <<>>

\* EncodeRune with the fit test written n + code.Size <= 0x20: a code that
\* fills the word exactly appends no fresh word
EncodeRuneNoFreshWord(t, st, r) ==
  IF st.err # "none" THEN st
  ELSE IF r \notin DOMAIN t
  THEN [vec |-> <<>>, size |-> 0, err |-> "notfound", rune |-> r]
  ELSE LET code == t[r]
           n == st.size % WordBits
           last == Len(st.vec)
       IN IF n + code.Size <= WordBits
          THEN [st EXCEPT
                  !.vec[last] = Or(@, Shl(code.Bits, WordBits - n - code.Size)),
                  !.size = @ + code.Size]
          ELSE LET m == code.Size - (WordBits - n)
               IN [st EXCEPT
                     !.vec = Append([@ EXCEPT ![last] = Or(@, Shr(code.Bits, m))],
                                    Shl(code.Bits, WordBits - m)),
                     !.size = @ + code.Size]

\* one iteration of the loop over the runes of s; st is the loop's state,
\* st.err # "none" once the function has returned an error
EncodeRune(t, st, r) ==
  IF st.err # "none" THEN st
  ELSE IF r \notin DOMAIN t
  THEN [vec |-> NilVec, size |-> 0, err |-> "notfound", rune |-> r]
  ELSE LET code == t[r]
           n == st.size % WordBits
           last == Len(st.vec)
       IN IF n + code.Size < WordBits
          THEN [st EXCEPT
                  !.vec[last] = Or(@, Shl(code.Bits, WordBits - n - code.Size)),
                  !.size = @ + code.Size]
          ELSE LET m == code.Size - (WordBits - n)
               IN [st EXCEPT
                     !.vec = Append([@ EXCEPT ![last] = Or(@, Shr(code.Bits, m))],
                                    Shl(code.Bits, WordBits - m)),
                     !.size = @ + code.Size]

\* the loop over s[lo..hi], in input order
RECURSIVE EncodeLoop(_, _, _, _, _)
EncodeLoop(t, s, st, lo, hi) ==
  IF lo > hi THEN st
  ELSE IF lo = hi THEN EncodeRune(t, st, s[lo])
  ELSE LET mid == (lo + hi) \div 2
           half == EncodeLoop(t, s, st, lo, mid)
       IN IF half.err # "none" THEN half
          ELSE EncodeLoop(t, s, half, mid + 1, hi)

\* Encode without the test for an empty table
EncodeNoEmptyTest(t, s) ==
  EncodeLoop(t, s, [vec |-> <<Zero>>, size |-> 0, err |-> "none",
                    rune |-> 0], 1, Len(s))

Encode(t, s) ==
  IF DOMAIN t = {}
  THEN [vec |-> NilVec, size |-> 0, err |-> "empty", rune |-> 0]
  ELSE EncodeLoop(t, s, [vec |-> <<Zero>>, size |-> 0, err |-> "none",
                         rune |-> 0], 1, Len(s))

\* ----------------------------------------------------------------- Decode
\* the result of Decode: out is the returned string, b the buffer of the
\* runes matched so far at the return; err "panic" is an index out of range
\* (a panic of the Go runtime)
Return(out, err, b) == [out |-> out, err |-> err, b |-> b]

\* one iteration of `for i := 0; i < size;`, or the code after the loop.
\* st is the loop's state (st.ret = FALSE) or the result (st.ret = TRUE).
\* The table is a map, ranged over in any order, so any rune whose code
\* matches may be the one written: the step yields a set of states.
DecodeBit(t, size, st) ==
  IF st.ret THEN {st}
  ELSE IF ~(st.i < size)
  THEN {[ret |-> TRUE,
         res |-> Return(st.b, IF st.n # 0 THEN "remaining" ELSE "none", st.b)]}
  ELSE LET bits1 == Or(Shl(st.bits, 1), Shr(st.v, WordBits - 1))
           v1 == Shl(st.v, 1)
           n1 == st.n + 1
           i1 == st.i + 1
           pop == (i1 % WordBits = 0)
       IN IF n1 > WordBits
          THEN {[ret |-> TRUE, res |-> Return(<<>>, "nomatch", st.b)]}
          ELSE IF pop /\ Len(st.bitVec) = 0
          THEN {[ret |-> TRUE, res |-> Return(<<>>, "panic", st.b)]}
          ELSE LET v2 == IF pop THEN Head(st.bitVec) ELSE v1
                   rest == IF pop THEN Tail(st.bitVec) ELSE st.bitVec
                   hits == {r \in DOMAIN t :
                              t[r].Size = n1 /\ t[r].Bits = bits1}
                   go == [ret |-> FALSE, v |-> v2, bitVec |-> rest, i |-> i1,
                          bits |-> bits1, n |-> n1, b |-> st.b]
               IN IF hits = {} THEN {go}
                  ELSE {[go EXCEPT !.bits = Zero, !.n = 0, !.b = Append(@, r)] :
                          r \in hits}

\* k steps of the loop from each state of S
RECURSIVE DecodeLoop(_, _, _, _)
DecodeLoop(t, size, S, k) ==
  IF k = 0 THEN S
  ELSE IF k = 1 THEN UNION {DecodeBit(t, size, st) : st \in S}
  ELSE LET half == DecodeLoop(t, size, S, k \div 2)
       IN IF \A st \in half : st.ret THEN half
          ELSE DecodeLoop(t, size, half, k - (k \div 2))

\* the loop runs size times at most, and the code after it once
Decode(t, bitVec, size) ==
  IF Len(bitVec) <= GoDiv(size, WordBits)
  THEN {Return(<<>>, "invalid", <<>>)}
  ELSE IF Len(bitVec) = 0 THEN {Return(<<>>, "panic", <<>>)}
  ELSE LET st0 == [ret |-> FALSE, v |-> Head(bitVec), bitVec |-> Tail(bitVec),
                   i |-> 0, bits |-> Zero, n |-> 0, b |-> <<>>]
           steps == (IF size > 0 THEN size ELSE 0) + 1
       IN {st.res : st \in DecodeLoop(t, size, {st0}, steps)}

\* ------------------------------------------------------------------ inputs
\* weight maps passed to BuildTable, up to a renaming of the runes: the
\* first k runes, each of weight 0..MaxW in units of 1/Unit (the weights need
\* not sum to 1.0), a smaller rune being at least as heavy as a larger one
FreqMaps ==
  {[w |-> f, den |-> Unit] :
     f \in {g \in UNION {[1..k -> 0..MaxW] : k \in 0..NumSyms} :
              \A i \in 1..(Len(g) - 1) : g[i] >= g[i + 1]}}

\* WideN runes of distinct integer weights WideN, WideN - 1, ..., 1
WideFreq == [w |-> [c \in 1..WideN |-> WideN + 1 - c], den |-> 1]

\* inputs of the two convenience constructors, up to a renaming of the
\* runes: a rune first occurs after every smaller rune has occurred
SourceStrings ==
  {str \in UNION {[1..n -> Syms] : n \in 0..MaxStr} :
     \A i \in 1..Len(str) :
       \A r \in 1..(str[i] - 1) : \E j \in 1..(i - 1) : str[j] = r}

\* strings to encode: an optional run of PadLen runes 1, then a tail
Tails == UNION {[1..n -> Syms] : n \in 0..MaxTail}

Pads == {<<>>, [i \in 1..PadLen |-> 1]}

EncodeStrings == {pad \o t : pad \in Pads, t \in Tails}

\* tables read back from a stream (README: gob.NewDecoder(r).Decode(&table)):
\* any map value is a Table; the ones used here give distinct runes
\* distinct codes
LitCodes ==
  {[Bits |-> Zero, Size |-> 1], [Bits |-> {0}, Size |-> 1],
   [Bits |-> {1}, Size |-> 2], [Bits |-> Zero, Size |-> WordBits]}

LitTables ==
  {[c \in DOMAIN a |->
      [Char |-> c, Prob |-> 0, Bits |-> a[c].Bits, Size |-> a[c].Size]] :
     a \in {x \in UNION {[S -> LitCodes] : S \in SUBSET (1..2)} :
               \A c, d \in DOMAIN x : c # d => x[c] # x[d]}}

DecWords == {Zero, Ones, 0..(WordBits - 2)}

\* vectors of up to MaxVec words: any first word, then equal words
DecVecs ==
  {<<>>} \cup
  {<<w>> \o [i \in 1..n |-> x] :
     w \in DecWords, x \in {Zero, Ones}, n \in 0..(MaxVec - 1)}

DecSizes ==
  {-(WordBits + 1), -WordBits, -1, 0, 1, WordBits, WordBits + 1,
   WordBits + 2, 2 * WordBits}

Builders == {"BuildTable", "BuildTableFromString", "BuildTableFromOrderedRunes"}

\* ------------------------------------------------------------------- state
VARIABLES pc, origin, freq, table, splits, s, enc, decVec, decSize, decOwn, dec

vars == <<pc, origin, freq, table, splits, s, enc, decVec, decSize, decOwn, dec>>

NoEnc == [vec |-> NilVec, size |-> 0, err |-> "none", rune |-> 0]

NoDec == [out |-> <<>>, err |-> "none", b |-> <<>>]

Init ==
  /\ pc = "start"
  /\ origin = "none"
  /\ freq = NoFreq
  /\ table = <<>>
  /\ splits = {}
  /\ s = <<>>
  /\ enc = NoEnc
  /\ decVec = <<>>
  /\ decSize = 0
  /\ decOwn = FALSE
  /\ dec = NoDec

Untouched == UNCHANGED <<s, enc, decVec, decSize, decOwn, dec>>

\* one run of BuildTable(f): some order the sort may leave, then divide
Built(f, by) ==
  \E order \in SortedOrders(f.w, DOMAIN f.w) :
    /\ table' = BuildTableOp(f, order)
    /\ splits' = Splits(InitCodes(f.w, order), f.den)
    /\ freq' = f
    /\ origin' = by
    /\ pc' = "built"
    /\ Untouched

BuildTable ==
  /\ pc = "start"
  /\ \E f \in FreqMaps \cup {WideFreq} : Built(f, "BuildTable")

BuildTableFromString ==
  /\ pc = "start"
  /\ \E str \in SourceStrings : Built(FreqOfString(str), "BuildTableFromString")

BuildTableFromOrderedRunes ==
  /\ pc = "start"
  /\ \E runes \in SourceStrings :
       Built(FreqOfOrderedRunes(runes), "BuildTableFromOrderedRunes")

\* a second run of BuildTable on the same weight map
BuildTableAgain ==
  /\ pc = "built"
  /\ origin \in Builders
  /\ Built(freq, origin)

LoadTable ==
  /\ pc = "start"
  /\ \E t \in LitTables :
       /\ table' = t
       /\ origin' = "Load"
       /\ pc' = "built"
       /\ UNCHANGED <<freq, splits>>
       /\ Untouched

CallEncode ==
  /\ pc = "built"
  /\ \E str \in EncodeStrings :
       /\ s' = str
       /\ enc' = Encode(table, str)
       /\ pc' = "encoded"
       /\ UNCHANGED <<origin, freq, table, splits, decVec, decSize, decOwn, dec>>

\* Decode called with the vector and size Encode returned
CallDecodeOfEncode ==
  /\ pc = "encoded"
  /\ enc.err = "none"
  /\ \E r \in Decode(table, enc.vec, enc.size) :
       /\ dec' = r
       /\ decVec' = enc.vec
       /\ decSize' = enc.size
       /\ decOwn' = TRUE
       /\ pc' = "decoded"
       /\ UNCHANGED <<origin, freq, table, splits, s, enc>>

\* Decode called with any vector and any size
CallDecode ==
  /\ pc = "built"
  /\ \E vec \in DecVecs, size \in DecSizes :
       \E r \in Decode(table, vec, size) :
         /\ dec' = r
         /\ decVec' = vec
         /\ decSize' = size
         /\ decOwn' = FALSE
         /\ pc' = "decoded"
         /\ UNCHANGED <<origin, freq, table, splits, s, enc>>

Next ==
  \/ BuildTable
  \/ BuildTableFromString
  \/ BuildTableFromOrderedRunes
  \/ BuildTableAgain
  \/ LoadTable
  \/ CallEncode
  \/ CallDecodeOfEncode
  \/ CallDecode

Spec == Init /\ [][Next]_vars

\* ------------------------------------------------------------ properties
FromBuilder == origin \in Builders /\ pc # "start"

\* Encode has been called on the current table with s
Encoded == pc = "encoded" \/ (pc = "decoded" /\ decOwn)

\* the positions of s whose rune is not a key of the table
Unknown == {i \in 1..Len(s) : s[i] \notin DOMAIN table}

Min(S) == CHOOSE x \in S : \A y \in S : x <= y

\* the top m bits of the l-bit pattern held in the word b
Top(b, l, m) == {k - (l - m) : k \in {j \in b : j >= l - m /\ j < l}}

MinOf(a, b) == IF a < b THEN a ELSE b

SizesFit == \A c \in DOMAIN table : table[c].Size <= WordBits

RECURSIVE SumTo(_, _)
SumTo(w, k) == IF k = 0 THEN 0 ELSE w[k] + SumTo(w, k - 1)

\* |sum(w[0:p)) - sum(w[p:len))| for a weight list w and a pivot p
PivotDiff(w, p) == Abs((SumTo(w, Len(w)) - SumTo(w, p)) - SumTo(w, p))

\* C1: round trip. For every table a builder returns and every s whose
\* runes are all keys of the table, Encode succeeds and Decode of Encode's
\* vector and size returns s with no error.
C1_RoundTrip ==
  (FromBuilder /\ Encoded /\ Unknown = {}) =>
     /\ enc.err = "none"
     /\ (pc = "decoded" => (dec.err = "none" /\ dec.out = s))

\* C2: prefix-free. In every table BuildTable returns, the codes of two
\* distinct runes differ in their top min(l1, l2) bits.
C2_PrefixFree ==
  FromBuilder =>
    \A c, d \in DOMAIN table :
      c # d =>
        LET m == MinOf(table[c].Size, table[d].Size)
        IN Top(table[c].Bits, table[c].Size, m)
             # Top(table[d].Bits, table[d].Size, m)

\* C3: shorter codes for likelier runes. In every built table a rune of
\* greater weight has a code no longer than a rune of smaller weight.
C3_ShorterForLikelier ==
  FromBuilder =>
    \A x, y \in DOMAIN table :
      freq.w[x] > freq.w[y] => table[x].Size <= table[y].Size

\* C4: determinism. A second run of BuildTable on the same weight map gives
\* every rune the same Bits and Size as the first run.
C4_Deterministic ==
  [][(pc = "built" /\ pc' = "built") =>
       \A c \in DOMAIN table :
         /\ table'[c].Bits = table[c].Bits
         /\ table'[c].Size = table[c].Size]_vars

\* C5: Decode fails safely. For every table, vector and size Decode never
\* indexes outside the vector, and when the vector holds fewer than size
\* bits the result is the invalid-bit-vector error.
C5_DecodeFailsSafely ==
  pc = "decoded" =>
    /\ dec.err # "panic"
    /\ (Len(decVec) * WordBits < decSize => dec.err = "invalid")

\* C6: Encode returns an error exactly when the table is empty or some rune
\* of s is not a key; the not-found error names the first such rune; with an
\* error the vector is nil and the size 0.
C6_EncodeErrors ==
  Encoded =>
    /\ (enc.err # "none") <=> (DOMAIN table = {} \/ Unknown # {})
    /\ (enc.err = "notfound" =>
          (Unknown # {} /\ enc.rune = s[Min(Unknown)]))
    /\ (enc.err # "none" => (enc.vec = NilVec /\ enc.size = 0))

\* an Encode that failed on a string with two different unknown runes after
\* a known one
W6_FirstUnknownNamed ==
  /\ pc = "encoded"
  /\ enc.err = "notfound"
  /\ Cardinality({s[i] : i \in Unknown}) >= 2
  /\ Min(Unknown) > 1

\* C7: partial result. Whenever Decode returns an error, the string it
\* returns is the sequence of runes matched before the failure.
C7_PartialResult ==
  (pc = "decoded" /\ dec.err \notin {"none", "panic"}) => dec.out = dec.b

\* C8: code length bound. Every entry of a table built from a non-empty
\* weight map has 0 < Size <= 32 and Bits < 2^Size.
C8_LengthBound ==
  (FromBuilder /\ DOMAIN freq.w # {}) =>
    \A c \in DOMAIN table :
      /\ 0 < table[c].Size
      /\ table[c].Size <= WordBits
      /\ table[c].Bits \subseteq 0..(table[c].Size - 1)

\* C9: balanced pivot. The pivot of every sub-list divide splits lies in
\* 1..len-1 and minimises |sum(left) - sum(right)| over all such pivots.
C9_BalancedPivot ==
  \A sp \in splits :
    /\ 1 <= sp.p
    /\ sp.p < Len(sp.w)
    /\ \A q \in 1..(Len(sp.w) - 1) : PivotDiff(sp.w, sp.p) <= PivotDiff(sp.w, q)

\* C10: storage agreement. When the code lengths are at most 32 and Encode
\* succeeds, its vector has floor(size / 32) + 1 words, and Decode of that
\* vector and size neither reports an invalid bit vector nor indexes outside
\* the vector.
C10_StorageAgreement ==
  (Encoded /\ enc.err = "none" /\ SizesFit) =>
    /\ Len(enc.vec) = GoDiv(enc.size, WordBits) + 1
    /\ (pc = "decoded" => dec.err \notin {"invalid", "panic"})

\* the last code filled the word exactly, and the result has been decoded
W10_ExactFill ==
  /\ pc = "decoded"
  /\ decOwn
  /\ SizesFit
  /\ enc.size > 0
  /\ enc.size % WordBits = 0
  /\ Len(s) > 1

====
